---- MODULE Spec2Model ----
(***************************************************************************)
(* A model of csv2kicad_energymicro.py: the conversion of one or more      *)
(* Energy Micro pin tables (CSV) into KiCad symbol data.                   *)
(*                                                                         *)
(* Text is modelled as a sequence of one-character strings, a CSV line as  *)
(* the sequence of its ';'-separated fields.  The regular expressions of   *)
(* the script are modelled by what they match on such lines.               *)
(***************************************************************************)
EXTENDS Integers, Sequences, FiniteSets, TLC

\* ------------------------------------------------------------------ text

Digit == {"0", "1", "2", "3", "4", "5", "6", "7", "8", "9"}

Upper == {"A", "B", "C", "D", "E", "F", "G", "H", "I", "J", "K", "L", "M",
          "N", "O", "P", "Q", "R", "S", "T", "U", "V", "W", "X", "Y", "Z"}

Lower == {"a", "b", "c", "d", "e", "f", "g", "h", "i", "j", "k", "l", "m",
          "n", "o", "p", "q", "r", "s", "t", "u", "v", "w", "x", "y", "z"}

\* \w of the re module
WordChar == Digit \cup Upper \cup Lower \cup {"_"}

\* The characters of the model in ASCII order; Ord(c) orders them as
\* Python orders the characters of a str.
AsciiOrder ==
  << " ", "#", ",", "-", "/",
     "0", "1", "2", "3", "4", "5", "6", "7", "8", "9",
     "A", "B", "C", "D", "E", "F", "G", "H", "I", "J", "K", "L", "M",
     "N", "O", "P", "Q", "R", "S", "T", "U", "V", "W", "X", "Y", "Z",
     "_",
     "a", "b", "c", "d", "e", "f", "g", "h", "i", "j", "k", "l", "m",
     "n", "o", "p", "q", "r", "s", "t", "u", "v", "w", "x", "y", "z",
     "~" >>

Ord(c) == CHOOSE i \in DOMAIN AsciiOrder : AsciiOrder[i] = c

\* str.lower() of one character, as used by the (?i) flag
LowerOf(c) ==
  IF c \in Upper THEN AsciiOrder[Ord(c) + 27] ELSE c

DigitChar == << "0", "1", "2", "3", "4", "5", "6", "7", "8", "9" >>

DigitVal(c) == CHOOSE d \in 0..9 : DigitChar[d + 1] = c

\* str(n) of a natural number
RECURSIVE Dec(_)
Dec(n) ==
  IF n < 10 THEN << DigitChar[n + 1] >>
  ELSE Dec(n \div 10) \o << DigitChar[(n % 10) + 1] >>

\* int(s) succeeds on a non-empty run of digits
IsInt(s) == s # << >> /\ \A i \in DOMAIN s : s[i] \in Digit

RECURSIVE ToInt(_)
ToInt(s) ==
  IF s = << >> THEN 0
  ELSE 10 * ToInt(SubSeq(s, 1, Len(s) - 1)) + DigitVal(s[Len(s)])

Take(s, n) == SubSeq(s, 1, IF n < Len(s) THEN n ELSE Len(s))

Drop(s, n) == SubSeq(s, n + 1, Len(s))

StartsWith(s, p) == Len(s) >= Len(p) /\ SubSeq(s, 1, Len(p)) = p

Fold(s) == [i \in DOMAIN s |-> LowerOf(s[i])]

\* re.sub of a literal pattern: every non-overlapping occurrence, left to
\* right; ci is the (?i) flag.
RECURSIVE SubAll(_, _, _, _)
SubAll(s, pat, rep, ci) ==
  IF s = << >> THEN << >>
  ELSE IF (IF ci THEN StartsWith(Fold(s), Fold(pat)) ELSE StartsWith(s, pat))
       THEN rep \o SubAll(Drop(s, Len(pat)), pat, rep, ci)
       ELSE << Head(s) >> \o SubAll(Tail(s), pat, rep, ci)

\* re.sub(r'//\s(?=\w)', '', s)
RECURSIVE DelCommentAnchor(_)
DelCommentAnchor(s) ==
  IF s = << >> THEN << >>
  ELSE IF Len(s) >= 4 /\ SubSeq(s, 1, 3) = << "/", "/", " " >>
          /\ s[4] \in WordChar
       THEN DelCommentAnchor(Drop(s, 3))
       ELSE << Head(s) >> \o DelCommentAnchor(Tail(s))

\* ------------------------------------------------- natural sort (175-197)

\* The length of the longest prefix of s whose characters are all in S.
RECURSIVE LeadLen(_, _)
LeadLen(s, S) ==
  IF s = << >> \/ Head(s) \notin S THEN 0 ELSE 1 + LeadLen(Tail(s), S)

TxtChunk(t) == [isnum |-> FALSE, txt |-> t, num |-> 0]

NumChunk(n) == [isnum |-> TRUE, txt |-> << >>, num |-> n]

\* [convert(c) for c in re.split('([0-9]+)', s)]: text and integer chunks
\* alternate, beginning and ending with a (possibly empty) text chunk.
RECURSIVE NatKey(_)
NatKey(s) ==
  LET a    == LeadLen(s, (WordChar \cup {" ", "#", ",", "-", "/", "~"}) \ Digit)
      rest == Drop(s, a)
      b    == LeadLen(rest, Digit)
  IN  IF rest = << >> THEN << TxtChunk(Take(s, a)) >>
      ELSE << TxtChunk(Take(s, a)), NumChunk(ToInt(Take(rest, b))) >>
           \o NatKey(Drop(rest, b))

\* str < str of Python: by character code, a proper prefix first.
RECURSIVE TextLess(_, _)
TextLess(s, t) ==
  IF t = << >> THEN FALSE
  ELSE IF s = << >> THEN TRUE
  ELSE IF Head(s) # Head(t) THEN Ord(Head(s)) < Ord(Head(t))
  ELSE TextLess(Tail(s), Tail(t))

\* Python 2 orders an int before any str.
ChunkLess(a, b) ==
  IF a.isnum /\ b.isnum THEN a.num < b.num
  ELSE IF ~a.isnum /\ ~b.isnum THEN TextLess(a.txt, b.txt)
  ELSE a.isnum

\* list < list of Python: the first differing element decides, a proper
\* prefix is smaller.
RECURSIVE KeyLess(_, _)
KeyLess(k1, k2) ==
  IF k2 = << >> THEN FALSE
  ELSE IF k1 = << >> THEN TRUE
  ELSE IF Head(k1) # Head(k2) THEN ChunkLess(Head(k1), Head(k2))
  ELSE KeyLess(Tail(k1), Tail(k2))

\* ---------------------------------------- Stage 2: regex editing (272-294)

Slash == << "/" >>

\* The column headings of writenames (317) and the inserted heading (276)
Pin_name == << "P", "i", "n", "_", "n", "a", "m", "e" >>

Functionality == << "F", "u", "n", "c", "t", "i", "o", "n", "a", "l", "i", "t", "y" >>

Pin_id == << "P", "i", "n", "_", "i", "d" >>

Unit == << "U", "n", "i", "t" >>

Pin_type == << "P", "i", "n", "_", "t", "y", "p", "e" >>

\* (Pin.name;) : a field that ends "Pin", any character, "name"
EndsPinName(f) ==
  /\ Len(f) >= 8
  /\ SubSeq(f, Len(f) - 7, Len(f) - 5) = << "P", "i", "n" >>
  /\ SubSeq(f, Len(f) - 3, Len(f)) = << "n", "a", "m", "e" >>

\* ((PA|PB)\d{1,2}); : a field that ends P, a bank letter and 1-2 digits.
\* The pattern is not anchored, so any field of the line that a ';'
\* follows can match.
GpioSuffix(f, banks) ==
  \E k \in {1, 2} :
    /\ Len(f) >= k + 2
    /\ \A i \in (Len(f) - k + 1)..Len(f) : f[i] \in Digit
    /\ f[Len(f) - k] \in banks
    /\ f[Len(f) - k - 1] = "P"

\* re.sub(r'((PA|PB)\d{1,2});', '\\1/;1;', line): '/' is appended to each
\* matching field that a ';' follows, and a field holding the unit number
\* is inserted after it.
RECURSIVE SubGpioFrom(_, _, _, _)
SubGpioFrom(line, i, banks, unit) ==
  IF i > Len(line) THEN << >>
  ELSE (IF i < Len(line) /\ GpioSuffix(line[i], banks)
        THEN << line[i] \o Slash, unit >>
        ELSE << line[i] >>)
       \o SubGpioFrom(line, i + 1, banks, unit)

SubGpio(line, banks, unit) == SubGpioFrom(line, 1, banks, unit)

\* re.sub(r'(Pin.name;)', '\\1Unit;', line)
RECURSIVE SubHeadingFrom(_, _)
SubHeadingFrom(line, i) ==
  IF i > Len(line) THEN << >>
  ELSE (IF i < Len(line) /\ EndsPinName(line[i])
        THEN << line[i], Unit >>
        ELSE << line[i] >>)
       \o SubHeadingFrom(line, i + 1)

\* IOVD.*?|A{0,1}VSS.*?|A{0,1}VDD.*?|RESE.*?|DECO.*?|USB_.*?
PowerToken(f) ==
  \/ StartsWith(f, << "I", "O", "V", "D" >>)
  \/ StartsWith(f, << "V", "S", "S" >>)
  \/ StartsWith(f, << "A", "V", "S", "S" >>)
  \/ StartsWith(f, << "V", "D", "D" >>)
  \/ StartsWith(f, << "A", "V", "D", "D" >>)
  \/ StartsWith(f, << "R", "E", "S", "E" >>)
  \/ StartsWith(f, << "D", "E", "C", "O" >>)
  \/ StartsWith(f, << "U", "S", "B", "_" >>)

\* ^\w*\d{1,2}; : the first field is word characters and ends in a digit
IdEndsInDigit(f) ==
  /\ f # << >>
  /\ \A i \in DOMAIN f : f[i] \in WordChar
  /\ f[Len(f)] \in Digit

\* re.sub(r'(^\w*\d{1,2};(IOVD.*?|...|USB_.*?));', '\\1;4;', line)
SubPower(line) ==
  IF Len(line) >= 3 /\ IdEndsInDigit(line[1]) /\ PowerToken(line[2])
  THEN << line[1], line[2], << "4" >> >> \o SubSeq(line, 3, Len(line))
  ELSE line

\* Lines 284-291: the edits that do not cross a ';', field by field.
TidyField(f) ==
  LET f1 == SubAll(f, << " ", "#" >>, << "_", "#" >>, FALSE)
      f2 == SubAll(f1, << " ", "/", " " >>, << "/" >>, FALSE)
      f3 == SubAll(f2, << "," >>, << "-" >>, FALSE)
      f4 == SubAll(f3, << " " >>, << "_" >>, FALSE)
      f5 == SubAll(f4, << "u", "n", "k", "n", "o", "w", "n" >>, << "U" >>, TRUE)
  IN  SubAll(f5, << "p", "o", "w", "e", "r" >>, << "W" >>, TRUE)

USB_VREGO == << "U", "S", "B", "_", "V", "R", "E", "G", "O" >>

\* re.sub(r'(^\d{1,2};USB_VREGO;4);W;', '\\1;w;', line)
SubPowerOut(line) ==
  IF /\ Len(line) >= 5
     /\ IsInt(line[1]) /\ Len(line[1]) <= 2
     /\ line[2] = USB_VREGO /\ line[3] = << "4" >> /\ line[4] = << "W" >>
  THEN [line EXCEPT ![4] = << "w" >>]
  ELSE line

\* The body of the loop of lines 273-294 for one line.
FormatLine(line) ==
  LET l1 == [i \in DOMAIN line |-> DelCommentAnchor(line[i])]
      l2 == SubHeadingFrom(l1, 1)
      l3 == SubGpio(l2, {"A", "B"}, << "1" >>)
      l4 == SubGpio(l3, {"C", "D"}, << "2" >>)
      l5 == SubGpio(l4, {"E", "F"}, << "3" >>)
      l6 == SubPower(l5)
      l7 == [i \in DOMAIN l6 |-> TidyField(l6[i])]
      l8 == SubPowerOut(l7)
  IN  [i \in DOMAIN l8 |->
         SubAll(l8[i], << "p", "a", "s", "s", "i", "v", "e" >>, << "P" >>, TRUE)]

\* ------------------------------------- Stage 3: reorder columns (317-344)

writenames == << Pin_name, Functionality, Pin_id, Unit, Pin_type >>

HasKey(heading, k) == \E i \in DOMAIN heading : heading[i] = k

\* name2index[k]: dict() keeps the last column that carries the heading;
\* columns are numbered from 1 here.
name2index(heading, k) ==
  CHOOSE i \in DOMAIN heading :
    heading[i] = k /\ \A j \in DOMAIN heading : heading[j] = k => j <= i

writeindices(heading) ==
  [n \in DOMAIN writenames |-> name2index(heading, writenames[n])]

\* [row[i] for i in writeindices] raises IndexError on a row that is
\* shorter than a wanted column.
RowTooShort(row, widx) == \E n \in DOMAIN widx : widx[n] > Len(row)

ReorderRow(row, widx) == [n \in DOMAIN widx |-> row[widx[n]]]

\* Column positions of a reordered row (370-371), numbered from 1.
pinname_col == 1

func_col == 2

id_col == 3

unit_col == 4

type_col == 5

\* ------------------------------------------------ the input files (229-258)

\* Bounds of the model
MaxGroup == 2

MaxPower == 3

MaxFiles == 2

RESETn == << "R", "E", "S", "E", "T", "n" >>

DECOUPLE == << "D", "E", "C", "O", "U", "P", "L", "E" >>

USB_VBUS == << "U", "S", "B", "_", "V", "B", "U", "S" >>

USB_VREGI == << "U", "S", "B", "_", "V", "R", "E", "G", "I" >>

VDD_DREG == << "V", "D", "D", "_", "D", "R", "E", "G" >>

VSS_DREG == << "V", "S", "S", "_", "D", "R", "E", "G" >>

VSS == << "V", "S", "S" >>

VSS_PAD == << "V", "S", "S", "_", "P", "A", "D" >>

AVDD_ == << "A", "V", "D", "D", "_" >>

AVSS_ == << "A", "V", "S", "S", "_" >>

IOVDD_ == << "I", "O", "V", "D", "D", "_" >>

\* Names the script has no rule for: the first is a power-unit name by
\* line 282 that no placement rule of lines 512-592 matches, the second
\* matches none of the patterns of lines 279-282.
USB_FOO == << "U", "S", "B", "_", "F", "O", "O" >>

FOO_BAR == << "F", "O", "O", "_", "B", "A", "R" >>

BankLetter == << << "A", "B" >>, << "C", "D" >>, << "E", "F" >> >>

\* Pin numbers of a bank in the order of the input: 10 comes before 2, as
\* a plain text sort would leave them.
PinNum(k) == IF k % 2 = 1 THEN 10 + (k \div 2) ELSE 1 + (k \div 2)

GpioName(u, bank, k) ==
  << "P", BankLetter[u][bank] >> \o Dec(IF bank = 1 THEN PinNum(k) ELSE k)

\* The GPIO pins of unit u: a pins of the first bank, b of the second.
GpioPins(u, shape) ==
  [k \in 1..shape[1] |-> GpioName(u, 1, k)]
  \o [k \in 1..shape[2] |-> GpioName(u, 2, k)]

Numbered(prefix, n) == [k \in 1..n |-> prefix \o Dec(k - 1)]

Repeated(name, n) == [k \in 1..n |-> name]

\* The shapes of the units 1-3 of a device: which are populated, and with
\* how many pins of each bank.
GpioConfigs ==
  { << << 2, 1 >>, << 1, 0 >>, << 0, 1 >> >>,
    << << 0, 1 >>, << 2, 1 >>, << 1, 0 >> >>,
    << << 1, 0 >>, << 1, 0 >>, << 0, 0 >> >>,
    << << 2, 1 >>, << 0, 0 >>, << 1, 0 >> >>,
    << << 0, 0 >>, << 2, 1 >>, << 0, 1 >> >>,
    << << 0, 0 >>, << 0, 0 >>, << 2, 1 >> >>,
    << << 0, 0 >>, << 0, 0 >>, << 0, 0 >> >> }

\* The pins of the power unit that a device has besides its AVDD_n,
\* AVSS_n, IOVDD_n and VSS pins.
ExtraPins ==
  { << >>,
    << RESETn, DECOUPLE >>,
    << USB_VBUS >>,
    << USB_VBUS, USB_VREGI, USB_VREGO, VDD_DREG >>,
    << VDD_DREG, VSS_DREG >>,
    << VSS_PAD >>,
    << RESETn, VSS_PAD, VSS_DREG >>,
    << DECOUPLE, USB_FOO >>,
    << FOO_BAR >> }

\* The numbers of AVDD_n, AVSS_n, IOVDD_n and VSS pins of a device: up to
\* MaxGroup of each and MaxPower in all, and a device with three VSS pins
\* and one analog ground pin.
PowerCounts ==
  { c \in (0..MaxGroup) \X (0..MaxGroup) \X (0..MaxGroup) \X (0..MaxGroup) :
      c[1] + c[2] + c[3] + c[4] <= MaxPower }
  \cup { << 0, 1, 0, 3 >> }

\* How a file writes pin ids and pin types (help text, 731-745): pin
\* numbers, or alphanumeric ids.
IdStyles == { "number", "ball", "port" }

\* A file lists its pins in some order; the reverse of the order of
\* PinNames is taken for files with pin numbers.
Layouts ==
  { [style |-> st, rev |-> rv] :
      st \in IdStyles, rv \in BOOLEAN } \ { [style |-> st, rev |-> TRUE] : st \in { "ball", "port" } }

PinId(style, i) ==
  IF style = "number" THEN Dec(i)
  ELSE IF style = "ball" THEN << "A" >> \o Dec(i)
  ELSE << "P", "A" >> \o Dec(i)

IsGpioName(name) == Len(name) >= 3 /\ name[1] = "P" /\ name[2] \in {"A", "B", "C", "D", "E", "F"}

PinType(style, name) ==
  IF style = "ball"
  THEN (IF IsGpioName(name) THEN << "B" >> ELSE << "W" >>)
  ELSE (IF IsGpioName(name) THEN << "U", "n", "k", "n", "o", "w", "n" >>
        ELSE << "P", "o", "w", "e", "r" >>)

PinFunc(style, name) ==
  IF style = "number" /\ IsGpioName(name)
  THEN << "T", "0", " ", "#", "0" >>
  ELSE << >>

Reverse(s) == [i \in DOMAIN s |-> s[Len(s) + 1 - i]]

\* The pin names of a device in the order of its file.
PinNames(gpio, avdd, avss, iovdd, vss, extra, rev) ==
  LET names == GpioPins(1, gpio[1]) \o Numbered(AVDD_, avdd)
               \o Repeated(VSS, vss) \o GpioPins(2, gpio[2])
               \o Numbered(IOVDD_, iovdd) \o extra
               \o GpioPins(3, gpio[3]) \o Numbered(AVSS_, avss)
  IN  IF rev THEN Reverse(names) ELSE names

\* Row 10 of a file, the column headings (724)
HeadingRow ==
  << << "/", "/", " ", "P", "i", "n", " ", "i", "d" >>,
     << "P", "i", "n", " ", "n", "a", "m", "e" >>,
     << "P", "i", "n", " ", "t", "y", "p", "e" >>,
     Functionality >>

CsvRow(style, i, name) ==
  << PinId(style, i), name, PinType(style, name), PinFunc(style, name) >>

\* csv_list_str after del csv_list_str[0:8+1]: the heading row and one
\* row per pin, each split at ';' by csv.reader.
CsvRows(names, style) ==
  << HeadingRow >> \o [i \in DOMAIN names |-> CsvRow(style, i, names[i])]

MaxOf(S) == CHOOSE m \in S : \A n \in S : n <= m

Range(f) == { f[i] : i \in DOMAIN f }

\* Every pin name and every row that a file of the bounds can hold.
AllNames ==
  UNION { Range(GpioPins(u, g[u])) : u \in 1..3, g \in GpioConfigs }
  \cup Range(Numbered(AVDD_, MaxGroup)) \cup Range(Numbered(AVSS_, MaxGroup))
  \cup Range(Numbered(IOVDD_, MaxGroup)) \cup { VSS }
  \cup UNION { Range(e) : e \in ExtraPins }

MaxRows ==
  MaxOf({ g[1][1] + g[1][2] + g[2][1] + g[2][2] + g[3][1] + g[3][2] :
          g \in GpioConfigs })
  + MaxOf({ c[1] + c[2] + c[3] + c[4] : c \in PowerCounts })
  + MaxOf({ Len(e) : e \in ExtraPins })

AllRows ==
  { HeadingRow }
  \cup { CsvRow(st, i, n) : st \in IdStyles, i \in 1..MaxRows, n \in AllNames }

\* FormatLine of every row, and the sort key of every field of the
\* formatted rows, computed once.
FormatTable == [r \in AllRows |-> FormatLine(r)] @@ << >>

NatKeyTable ==
  [t \in UNION { Range(FormatTable[r]) : r \in AllRows } |-> NatKey(t)] @@ << >>

NatLess(s, t) == KeyLess(NatKeyTable[s], NatKeyTable[t])

\* list.sort(key=...) on column col: a stable sort, so a row goes after
\* every row already placed that is not greater than it.
RECURSIVE InsertRow(_, _, _)
InsertRow(sorted, row, col) ==
  IF sorted = << >> THEN << row >>
  ELSE IF NatLess(row[col], sorted[Len(sorted)][col])
       THEN InsertRow(SubSeq(sorted, 1, Len(sorted) - 1), row, col)
            \o << sorted[Len(sorted)] >>
       ELSE sorted \o << row >>

\* A sort that leaves the table as it is: what the loop of line 480 would
\* see if the rows were not re-sorted.
natural_sort_none(table, col) == table

RECURSIVE natural_sort(_, _)
natural_sort(table, col) ==
  IF table = << >> THEN << >>
  ELSE InsertRow(natural_sort(SubSeq(table, 1, Len(table) - 1), col),
                 table[Len(table)], col)

\* sort_table(table, (c1, c2)): for col in reversed(cols) sorts by c2,
\* then by c1.
sort_table(table, c1, c2) == natural_sort(natural_sort(table, c2), c1)


\* ------------------------------------------------------------- state

VARIABLES
  pc,                   \* where the program is
  err,                  \* the exception that ended it, if any
  fcounter,             \* files processed (796, 836)
  header_flag,          \* the global of line 125
  lib, dcm,             \* what has been written to the two output files
  csv_list_str,         \* the rows of the file, from the heading row on
  data,                 \* the table of stage 3, sorted in place by stage 4
  avdd_tot, avss_tot, iovdd_tot, vss_tot, vssdreg_flag, usbv_flag,
  avdd_iovdd_max,
  unit_number, counter_row_in_unit, unit_row_sub_flag,
  iovdd_row_counter, vss_row_counter, avdd_row_counter, avss_row_counter,
  vss_max,
  sorted_table,         \* the rows placed so far
  unit_boxes,
  runs                  \* what each call that returned had read and written

main_vars == << fcounter, header_flag, lib, dcm >>

count_vars ==
  << avdd_tot, avss_tot, iovdd_tot, vss_tot, vssdreg_flag, usbv_flag,
     avdd_iovdd_max >>

loop_vars ==
  << unit_number, counter_row_in_unit, unit_row_sub_flag,
     iovdd_row_counter, vss_row_counter, avdd_row_counter, avss_row_counter,
     vss_max >>

vars ==
  << pc, err, main_vars, csv_list_str, data, count_vars, loop_vars,
     sorted_table, unit_boxes, runs >>

\* vss_max before line 574 has bound it
Unbound == -1

\* The locals of efm2kicad_generator at the start of a call.
FreshCall ==
  /\ csv_list_str = << >>
  /\ data = << >>
  /\ avdd_tot = 0 /\ avss_tot = 0 /\ iovdd_tot = 0 /\ vss_tot = 0
  /\ vssdreg_flag = FALSE /\ usbv_flag = FALSE
  /\ avdd_iovdd_max = 0
  /\ unit_number = 0
  /\ counter_row_in_unit = 0 /\ unit_row_sub_flag = 0
  /\ iovdd_row_counter = 0 /\ vss_row_counter = 0
  /\ avdd_row_counter = 0 /\ avss_row_counter = 0
  /\ vss_max = Unbound
  /\ sorted_table = << >>
  /\ unit_boxes = << >>

\* What the output files hold, piece by piece: the header and footer
\* templates (130-134, 149-156, 166-167), the body templates filled in for the
\* n-th file read (136-148, 158-164), and what an earlier run left behind.
Header == [part |-> "header", file |-> 0]

Body(n) == [part |-> "body", file |-> n]

Footer == [part |-> "footer", file |-> 0]

OldText == [part |-> "old", file |-> 0]

Init ==
  /\ pc = "main"
  /\ err = "none"
  /\ fcounter = 0
  /\ header_flag = 0
  /\ lib \in { << >>, << OldText >> }
  /\ dcm = lib
  /\ runs = << >>
  /\ FreshCall

\* ------------------------------------- __main__ (818-842) and stages 1-3

\* Lines 822-829: both output files are emptied.
ClearOutputs ==
  /\ pc = "main"
  /\ lib' = << >>
  /\ dcm' = << >>
  /\ pc' = "loop"
  /\ UNCHANGED << err, fcounter, header_flag, csv_list_str, data,
                  count_vars, loop_vars, sorted_table, unit_boxes, runs >>

\* readnames (273-300) of the rows of a file
ReadNames(rows) == [i \in DOMAIN rows |-> FormatTable[rows[i]]]

\* Lines 836-842 and 229-344: one more file, whose rows are rows, is read,
\* its lines are edited and its columns reordered; limit bounds the files
\* of the directory.
ReadFile(rows, limit) ==
  /\ pc = "loop"
  /\ fcounter < limit
  /\ fcounter' = fcounter + 1
  /\ LET file      == rows
         readnames == ReadNames(file)
         widx      == writeindices(readnames[1])
     IN  /\ csv_list_str' = file
         /\ IF \E i \in DOMAIN readnames : RowTooShort(readnames[i], widx)
            THEN /\ pc' = "error"
                 /\ err' = "IndexError"
                 /\ UNCHANGED data
            ELSE /\ pc' = "stage4a"
                 /\ data' = [i \in DOMAIN readnames |->
                               ReorderRow(readnames[i], widx)]
                 /\ UNCHANGED err
  /\ UNCHANGED << header_flag, lib, dcm, count_vars, loop_vars,
                  sorted_table, unit_boxes, runs >>

\* Lines 832-842: the next file of the directory is any device of the
\* bounds.
Stage1to3 ==
  /\ pc = "loop"
  /\ \E gpio \in GpioConfigs, extra \in ExtraPins, layout \in Layouts,
        c \in PowerCounts :
       ReadFile(CsvRows(PinNames(gpio, c[1], c[2], c[3], c[4], extra,
                                 layout.rev),
                        layout.style),
                MaxFiles)

\* ------------------------------------- Stage 4A: counts and sort (374-480)

\* re.match(r'^P\w\d{1,2}', name)
IsGpioPin(name) ==
  Len(name) >= 3 /\ name[1] = "P" /\ name[2] \in WordChar /\ name[3] \in Digit

\* data1 (374-380): the names that are no GPIO pin, less the first one
RECURSIVE NonGpioNames(_)
NonGpioNames(table) ==
  IF table = << >> THEN << >>
  ELSE (IF IsGpioPin(table[1][pinname_col]) THEN << >>
        ELSE << table[1][pinname_col] >>)
       \o NonGpioNames(Tail(table))

\* count_dict_pin_name[key] (389): the names whose first five characters
\* are key
CountPrefix(names, key) ==
  Cardinality({i \in DOMAIN names : Take(names[i], 5) = key})

B2I(b) == IF b THEN 1 ELSE 0

pin_y_spacing == 100

pin_y_box_offset == 150

unit4_width == 1000

pin_length == 300

pin_left_lts == "300 R 50 50"

pin_right_lts == "300 L 50 50"

pin_l_x == 0

pin_r_x == unit4_width + 2 * pin_length

\* The offsets of the fixed-position pins (443-453)
up1 == << RESETn, 0, pin_left_lts >>

up2 == << DECOUPLE, 0, pin_right_lts >>

up3 == << "IOVDD_n", 6, pin_right_lts >>

up4 == << USB_VBUS, 4, pin_left_lts >>

up5 == << USB_VREGI, 6, pin_left_lts >>

up6 == << USB_VREGO, 7, pin_left_lts >>

up7 == << VDD_DREG, 2, pin_right_lts >>

up8 == << VSS_DREG, 3, pin_right_lts >>

up9 == << "VSS", 3, pin_right_lts >>

up10 == << "AVDD", 4, pin_left_lts >>

up11 == << "AVSS", 2, pin_left_lts >>

\* A flag that only the regulator output pin raises.
UsbvFlagVregoOnly(names) == \E i \in DOMAIN names : names[i] = USB_VREGO

\* usbv_flag (397): some name begins USB_V
UsbvFlag(names) == CountPrefix(names, << "U", "S", "B", "_", "V" >>) > 0

\* avdd_iovdd_max (468-475)
AvddIovddMax(usbv, avdd, iovdd) ==
  LET comp0 == B2I(usbv) * up6[2] + up10[2] + avdd
      comp1 == iovdd + up3[2]
  IN  IF comp0 >= comp1 THEN comp0 ELSE comp1

Stage4A ==
  /\ pc = "stage4a"
  /\ LET data1 == Tail(NonGpioNames(data))
         avdd  == CountPrefix(data1, AVDD_)
         iovdd == CountPrefix(data1, Take(IOVDD_, 5))
         usbv  == UsbvFlag(data1)
     IN  /\ avdd_tot' = avdd
         /\ avss_tot' = CountPrefix(data1, AVSS_)
         /\ iovdd_tot' = iovdd
         /\ vss_tot' = CountPrefix(data1, VSS)
         /\ vssdreg_flag' = (CountPrefix(data1, Take(VSS_DREG, 5)) > 0)
         /\ usbv_flag' = usbv
         /\ avdd_iovdd_max' = AvddIovddMax(usbv, avdd, iovdd)
  /\ data' = sort_table(Tail(data), unit_col, pinname_col)
  /\ pc' = "stage4b"
  /\ UNCHANGED << err, main_vars, csv_list_str, loop_vars, sorted_table,
                  unit_boxes, runs >>

\* --------------------------------------- Stage 4B: pin positions (480-595)

\* re.match(r'^PB|PD|PF\d{1,2}', name)
IsSecondBank(name) ==
  \/ StartsWith(name, << "P", "B" >>)
  \/ StartsWith(name, << "P", "D" >>)
  \/ (StartsWith(name, << "P", "F" >>) /\ Len(name) >= 3 /\ name[3] \in Digit)

\* re.match('IOVDD_\d', name)
MatchIovdd(name) ==
  StartsWith(name, IOVDD_) /\ Len(name) >= 7 /\ name[7] \in Digit

\* re.match('VSS(?!.D)', name)
MatchVss(name) ==
  StartsWith(name, VSS) /\ ~(Len(name) >= 5 /\ name[5] = "D")

\* re.match('AVDD_.', name)
MatchAvdd(name) == StartsWith(name, AVDD_) /\ Len(name) >= 6

\* re.match('AVSS_.', name)
MatchAvss(name) == StartsWith(name, AVSS_) /\ Len(name) >= 6

\* A default position that is the top slot, whatever the counter is.
DefaultRowAtTop(row, counter) ==
  [ name |-> row[pinname_col], func |-> row[func_col], id |-> row[id_col],
    x |-> pin_l_x, y |-> 0, lts |-> pin_left_lts,
    unit |-> row[unit_col], type |-> row[type_col] ]

\* Lines 506-510: the row with the default position inserted.  The fields
\* are those of the list of the script: name row[1], func row[2], id
\* row[3], x row[4], y row[5], lts row[6], unit row[7], type row[9].
DefaultRow(row, counter) ==
  [ name |-> row[pinname_col], func |-> row[func_col], id |-> row[id_col],
    x |-> pin_l_x, y |-> -(pin_y_spacing * counter), lts |-> pin_left_lts,
    unit |-> row[unit_col], type |-> row[type_col] ]

\* Lines 512-523
PlaceFixedTop(r) ==
  LET r1 == IF r.name = up1[1]
            THEN [r EXCEPT !.name = << "~", "R", "E", "S", "E", "T", "~" >>,
                           !.y = -(up1[2] * pin_y_spacing),
                           !.lts = up1[3],
                           !.type = << "P", " ", "I" >>]
            ELSE r
  IN  IF r1.name = up2[1]
      THEN [r1 EXCEPT !.x = pin_r_x, !.y = -(up2[2] * pin_y_spacing),
                      !.lts = up2[3]]
      ELSE r1

\* Lines 525-531
PlaceIovdd(r, n) ==
  IF MatchIovdd(r.name)
  THEN [r EXCEPT !.x = pin_r_x,
                 !.y = -(avdd_iovdd_max - iovdd_tot + n) * pin_y_spacing,
                 !.lts = up3[3]]
  ELSE r

\* Lines 533-556
PlaceUsb(r) ==
  LET r4 == IF r.name = up4[1]
            THEN [r EXCEPT !.x = pin_l_x, !.y = -(up4[2] * pin_y_spacing),
                           !.lts = up4[3]]
            ELSE r
      r5 == IF r4.name = up5[1]
            THEN [r4 EXCEPT !.x = pin_l_x, !.y = -(up5[2] * pin_y_spacing),
                            !.lts = up5[3]]
            ELSE r4
      r6 == IF r5.name = up6[1]
            THEN [r5 EXCEPT !.x = pin_l_x, !.y = -(up6[2] * pin_y_spacing),
                            !.lts = up6[3]]
            ELSE r5
  IN  IF r6.name = up7[1]
      THEN [r6 EXCEPT !.x = pin_r_x,
                      !.y = -(avdd_iovdd_max - iovdd_tot - up7[2])
                            * pin_y_spacing,
                      !.lts = up7[3]]
      ELSE r6

\* The slot of the VSS pin with counter n (569-570, 574-575)
VssSlot(n) == avdd_iovdd_max + up9[2] + (B2I(vssdreg_flag) * 2) + n

\* Lines 558-575
PlaceVss(r, n) ==
  LET r8 == IF r.name = up8[1]
            THEN [r EXCEPT !.x = pin_r_x,
                           !.y = -(up8[2] + avdd_iovdd_max) * pin_y_spacing,
                           !.lts = up8[3]]
            ELSE r
  IN  IF MatchVss(r8.name)
      THEN [r8 EXCEPT !.x = pin_r_x, !.y = -VssSlot(n) * pin_y_spacing,
                      !.lts = up9[3]]
      ELSE r8

\* The slot of the AVSS pin with counter n (588-590)
AvssSlot(n) ==
  avdd_iovdd_max + up9[2] + (B2I(vssdreg_flag) * 2) + vss_tot + n - avss_tot

\* Lines 577-592
PlaceAnalog(r, navdd, navss) ==
  LET r10 == IF MatchAvdd(r.name)
             THEN [r EXCEPT !.x = pin_l_x,
                            !.y = -(avdd_iovdd_max - avdd_tot + navdd)
                                  * pin_y_spacing,
                            !.lts = up10[3]]
             ELSE r
  IN  IF MatchAvss(r10.name)
      THEN [r10 EXCEPT !.x = pin_l_x, !.y = -AvssSlot(navss) * pin_y_spacing,
                       !.lts = up11[3]]
      ELSE r10

\* Line 487: the counters are reset when the unit of the row is not
\* unit_number
ResetsAt(row) == ToInt(row[unit_col]) # unit_number

\* One pass of the loop of line 480, for the next row of the sorted table.
PlaceRow ==
  /\ pc = "stage4b"
  /\ Len(sorted_table) < Len(data)
  /\ LET row == data[Len(sorted_table) + 1]
     IN  IF ~IsInt(row[unit_col])
         THEN /\ pc' = "error"
              /\ err' = "ValueError"
              /\ UNCHANGED << loop_vars, sorted_table >>
         ELSE LET reset == ResetsAt(row)
                  name  == row[pinname_col]
                  c0    == IF reset THEN 0 ELSE counter_row_in_unit
                  f0    == IF reset THEN 0 ELSE unit_row_sub_flag
                  io0   == IF reset THEN 0 ELSE iovdd_row_counter
                  vs0   == IF reset THEN 0 ELSE vss_row_counter
                  av0   == IF reset THEN 0 ELSE avdd_row_counter
                  as0   == IF reset THEN 0 ELSE avss_row_counter
                  sep   == f0 = 0 /\ IsSecondBank(name)
                  c1    == IF sep THEN c0 + 1 ELSE c0
                  ra    == PlaceFixedTop(DefaultRow(row, c1))
                  rb    == PlaceIovdd(ra, io0)
                  rc    == PlaceUsb(rb)
                  rd    == PlaceVss(rc, vs0)
                  re    == PlaceAnalog(rd, av0, as0)
              IN  /\ unit_number' = (IF reset THEN unit_number + 1
                                     ELSE unit_number)
                  /\ unit_row_sub_flag' = (IF sep THEN 1 ELSE f0)
                  /\ counter_row_in_unit' = c1 + 1
                  /\ iovdd_row_counter' =
                       (IF MatchIovdd(ra.name) THEN io0 + 1 ELSE io0)
                  /\ vss_row_counter' =
                       (IF MatchVss(rc.name) THEN vs0 + 1 ELSE vs0)
                  /\ vss_max' =
                       (IF MatchVss(rc.name) THEN VssSlot(vs0) ELSE vss_max)
                  /\ avdd_row_counter' =
                       (IF MatchAvdd(rd.name) THEN av0 + 1 ELSE av0)
                  /\ avss_row_counter' =
                       (IF MatchAvss(rd.name) THEN as0 + 1 ELSE as0)
                  /\ sorted_table' = Append(sorted_table, re)
                  /\ UNCHANGED << pc, err >>
  /\ UNCHANGED << main_vars, csv_list_str, data, count_vars, unit_boxes,
                  runs >>

\* ----------------------------------------- Stage 5: unit boxes (607-631)

\* A count that takes the blank slot between the banks of a unit for a
\* row of the unit.
CountUnitWithBlank(unit) ==
  LET rows == { i \in DOMAIN data : data[i][unit_col] = unit }
  IN  Cardinality(rows)
      + (IF /\ \E i \in rows : IsSecondBank(data[i][pinname_col])
            /\ \E i \in rows : ~IsSecondBank(data[i][pinname_col])
         THEN 1 ELSE 0)

\* count_dict[unit] (608): the rows of the table with that unit
CountUnit(unit) ==
  Cardinality({i \in DOMAIN data : data[i][unit_col] = unit})

\* The units of the groups of groupby (617): the table is sorted by unit,
\* so each unit is one group, in the order of the table.
RECURSIVE GroupUnits(_)
GroupUnits(table) ==
  IF table = << >> THEN << >>
  ELSE IF Len(table) >= 2 /\ table[1].unit = table[2].unit
       THEN GroupUnits(Tail(table))
       ELSE << table[1].unit >> \o GroupUnits(Tail(table))

\* Lines 619-631 for one group
UnitBox(unit) ==
  LET group == {i \in DOMAIN sorted_table : sorted_table[i].unit = unit}
  IN  IF ToInt(unit) < 4
      THEN [ x_min |-> pin_length, y_max |-> pin_y_box_offset,
             x_max |-> MaxOf({Len(sorted_table[i].name)
                              + Len(sorted_table[i].func) : i \in group})
                       * 45 + 300 + pin_length,
             y_min |-> -(pin_y_spacing * CountUnit(unit) + pin_y_box_offset),
             unit |-> unit ]
      ELSE [ x_min |-> pin_length, y_max |-> pin_y_box_offset,
             x_max |-> unit4_width + pin_length,
             y_min |-> -(vss_max * pin_y_spacing + pin_y_box_offset),
             unit |-> unit ]

\* Line 627 reads vss_max, which only a VSS pin binds (574).
BoxFails(unit) == ToInt(unit) >= 4 /\ vss_max = Unbound

Stage5 ==
  /\ pc = "stage4b"
  /\ Len(sorted_table) = Len(data)
  /\ LET units == GroupUnits(sorted_table)
     IN  IF \E i \in DOMAIN units : BoxFails(units[i])
         THEN /\ pc' = "error"
              /\ err' = "NameError"
              /\ UNCHANGED unit_boxes
         ELSE /\ pc' = "write"
              /\ unit_boxes' = [i \in DOMAIN units |-> UnitBox(units[i])]
              /\ UNCHANGED err
  /\ UNCHANGED << main_vars, csv_list_str, data, count_vars, loop_vars,
                  sorted_table, runs >>

\* --------------------------------------------- output (662-698, 880-888)

\* A return that leaves unit_number as it is, as if it were a global of
\* the module like header_flag.
WriteBodyKeepUnit ==
  /\ pc = "write"
  /\ header_flag' = 1
  /\ lib' = (IF header_flag = 0 THEN Append(lib, Header) ELSE lib)
            \o << Body(fcounter) >>
  /\ dcm' = (IF header_flag = 0 THEN Append(dcm, Header) ELSE dcm)
            \o << Body(fcounter) >>
  /\ pc' = "loop"
  /\ csv_list_str' = << >>
  /\ data' = << >>
  /\ avdd_tot' = 0 /\ avss_tot' = 0 /\ iovdd_tot' = 0 /\ vss_tot' = 0
  /\ vssdreg_flag' = FALSE /\ usbv_flag' = FALSE
  /\ avdd_iovdd_max' = 0
  /\ counter_row_in_unit' = 0 /\ unit_row_sub_flag' = 0
  /\ iovdd_row_counter' = 0 /\ vss_row_counter' = 0
  /\ avdd_row_counter' = 0 /\ avss_row_counter' = 0
  /\ vss_max' = Unbound
  /\ sorted_table' = << >>
  /\ unit_boxes' = << >>
  /\ UNCHANGED << err, fcounter, unit_number >>

\* A write that puts the header before every component, as if header_flag
\* were a local of the call.
WriteBodyHeaderEachCall ==
  /\ pc = "write"
  /\ header_flag' = 1
  /\ lib' = lib \o << Header, Body(fcounter) >>
  /\ dcm' = dcm \o << Header, Body(fcounter) >>
  /\ pc' = "loop"
  /\ csv_list_str' = << >>
  /\ data' = << >>
  /\ avdd_tot' = 0 /\ avss_tot' = 0 /\ iovdd_tot' = 0 /\ vss_tot' = 0
  /\ vssdreg_flag' = FALSE /\ usbv_flag' = FALSE
  /\ avdd_iovdd_max' = 0
  /\ unit_number' = 0
  /\ counter_row_in_unit' = 0 /\ unit_row_sub_flag' = 0
  /\ iovdd_row_counter' = 0 /\ vss_row_counter' = 0
  /\ avdd_row_counter' = 0 /\ avss_row_counter' = 0
  /\ vss_max' = Unbound
  /\ sorted_table' = << >>
  /\ unit_boxes' = << >>
  /\ UNCHANGED << err, fcounter >>

\* Lines 662-698: the header once per run, then the component; the call
\* returns and its locals are gone.
WriteBody ==
  /\ pc = "write"
  /\ header_flag' = 1
  /\ lib' = (IF header_flag = 0 THEN Append(lib, Header) ELSE lib)
            \o << Body(fcounter) >>
  /\ dcm' = (IF header_flag = 0 THEN Append(dcm, Header) ELSE dcm)
            \o << Body(fcounter) >>
  /\ pc' = "loop"
  /\ csv_list_str' = << >>
  /\ data' = << >>
  /\ avdd_tot' = 0 /\ avss_tot' = 0 /\ iovdd_tot' = 0 /\ vss_tot' = 0
  /\ vssdreg_flag' = FALSE /\ usbv_flag' = FALSE
  /\ avdd_iovdd_max' = 0
  /\ unit_number' = 0
  /\ counter_row_in_unit' = 0 /\ unit_row_sub_flag' = 0
  /\ iovdd_row_counter' = 0 /\ vss_row_counter' = 0
  /\ avdd_row_counter' = 0 /\ avss_row_counter' = 0
  /\ vss_max' = Unbound
  /\ sorted_table' = << >>
  /\ unit_boxes' = << >>
  /\ UNCHANGED << err, fcounter >>

WriteOutput == WriteBody /\ UNCHANGED runs

\* Lines 880-888
WriteFooter ==
  /\ pc = "loop"
  /\ lib' = Append(lib, Footer)
  /\ dcm' = Append(dcm, Footer)
  /\ pc' = "done"
  /\ UNCHANGED << err, fcounter, header_flag, csv_list_str, data,
                  count_vars, loop_vars, sorted_table, unit_boxes, runs >>

Next ==
  \/ ClearOutputs
  \/ Stage1to3
  \/ Stage4A
  \/ PlaceRow
  \/ Stage5
  \/ WriteOutput
  \/ WriteFooter

Spec == Init /\ [][Next]_vars

\* ------------------------------------------ runs over several files (832-842)

\* Bound of the model: the files of the directory of a run whose calls
\* are compared
MaxRuns == 3

\* The devices of those runs: units 1-3 all populated or unit 1 empty,
\* two sets of power pins, the three kinds of file.
RunDevices ==
  { CsvRows(PinNames(gpio, c[1], c[2], c[3], c[4], << RESETn >>, layout.rev),
            layout.style) :
      gpio \in { << << 2, 1 >>, << 1, 0 >>, << 0, 1 >> >>,
                 << << 0, 0 >>, << 2, 1 >>, << 0, 1 >> >> },
      c \in { << 1, 0, 1, 1 >>, << 0, 1, 0, 2 >> },
      layout \in { l \in Layouts : l.style # "port" } }

ReadRunFile ==
  /\ pc = "loop"
  /\ \E rows \in RunDevices : ReadFile(rows, MaxRuns)

\* The return of the call, with what the call read and wrote kept
WriteAndRecord ==
  /\ WriteBody
  /\ runs' = Append(runs, [ input |-> csv_list_str, table |-> sorted_table,
                            boxes |-> unit_boxes ])

NextRuns ==
  \/ ClearOutputs
  \/ ReadRunFile
  \/ Stage4A
  \/ PlaceRow
  \/ Stage5
  \/ WriteAndRecord
  \/ WriteFooter

SpecRuns == Init /\ [][NextRuns]_vars

\* ------------------------------------------------------------ properties

\* Every row of the table has been given its position.
PlacementDone ==
  \/ pc = "stage4b" /\ Len(sorted_table) = Len(data)
  \/ pc = "write"
  \/ pc = "error" /\ err = "NameError"

Slot(r) == (-r.y) \div pin_y_spacing

OnLeft(r) == r.x = pin_l_x /\ r.lts = pin_left_lts

OnRight(r) == r.x = pin_r_x /\ r.lts = pin_right_lts

\* The placed pins of unit u, as indices of sorted_table
UnitPins(u) == { i \in DOMAIN sorted_table : sorted_table[i].unit = Dec(u) }

PinName(i) == sorted_table[i].name

InSecondBank(i) == PinName(i)[2] \in { "B", "D", "F" }

NameBefore(i, j) == NatLess(PinName(i), PinName(j))

\* j follows i in the natural order of the names of the pins P
NameNext(P, i, j) ==
  NameBefore(i, j) /\ ~\E m \in P : NameBefore(i, m) /\ NameBefore(m, j)

HasName(P, name) == \E i \in P : PinName(i) = name

SlotOfName(P, name) == Slot(sorted_table[CHOOSE i \in P : PinName(i) = name])

\* C1: in each populated unit 1-3 the pins, in natural name order, get
\* slots that start at 0 and grow by 1 per pin, with one more slot skipped
\* where the second bank begins; no two pins of a unit share a slot; PA2
\* comes before PA10, and PA10 before PB1.
C1_SlotsSequential ==
  PlacementDone =>
    \A u \in 1..3 :
      LET P == UnitPins(u)
      IN  /\ \A i \in P :
               (~\E j \in P : NameBefore(j, i)) => Slot(sorted_table[i]) = 0
          /\ \A i, j \in P :
               NameNext(P, i, j) =>
                 Slot(sorted_table[j]) =
                   Slot(sorted_table[i]) + 1
                   + (IF ~InSecondBank(i) /\ InSecondBank(j) THEN 1 ELSE 0)
          /\ \A i, j \in P : i # j => Slot(sorted_table[i]) # Slot(sorted_table[j])
          /\ (HasName(P, << "P", "A", "2", "/" >>)
              /\ HasName(P, << "P", "A", "1", "0", "/" >>)
              /\ HasName(P, << "P", "B", "1", "/" >>))
             => /\ SlotOfName(P, << "P", "A", "2", "/" >>)
                   < SlotOfName(P, << "P", "A", "1", "0", "/" >>)
                /\ SlotOfName(P, << "P", "A", "1", "0", "/" >>)
                   < SlotOfName(P, << "P", "B", "1", "/" >>)

\* The slots of unit u, from 0 to the last one that holds a pin, that hold
\* no pin
BlankSlots(u) ==
  LET used == { Slot(sorted_table[i]) : i \in UnitPins(u) }
  IN  { s \in 0..MaxOf(used) : s \notin used }

\* C2: a populated unit 1-3 with pins of both banks has exactly one blank
\* slot, the one just before its first second-bank pin; a unit with pins
\* of one bank only has none, so that its first pin is at slot 0.
C2_OneSeparator ==
  PlacementDone =>
    \A u \in 1..3 :
      LET P      == UnitPins(u)
          second == { i \in P : InSecondBank(i) }
      IN  P # {} =>
            IF second # {} /\ second # P
            THEN BlankSlots(u)
                 = { MaxOf({ -Slot(sorted_table[i]) : i \in second }) * (-1) - 1 }
            ELSE BlankSlots(u) = {}

IovddPins == { i \in UnitPins(4) : StartsWith(PinName(i), IOVDD_) }

AvddPins == { i \in UnitPins(4) : StartsWith(PinName(i), AVDD_) }

SlotsOf(P) == { Slot(sorted_table[i]) : i \in P }

\* C3: the IOVDD_n pins fill the right-side slots anchor - iovddCount ..
\* anchor - 1 and the AVDD_n pins the left-side slots anchor - avddCount ..
\* anchor - 1, one pin per slot.
C3_SupplyStacks ==
  PlacementDone =>
    /\ SlotsOf(IovddPins)
       = (avdd_iovdd_max - Cardinality(IovddPins))..(avdd_iovdd_max - 1)
    /\ \A i \in IovddPins : OnRight(sorted_table[i])
    /\ SlotsOf(AvddPins)
       = (avdd_iovdd_max - Cardinality(AvddPins))..(avdd_iovdd_max - 1)
    /\ \A i \in AvddPins : OnLeft(sorted_table[i])

\* -------------------------------------------------- unit 4, default slot

Min(a, b) == IF a <= b THEN a ELSE b

Max(a, b) == IF a >= b THEN a ELSE b

\* The value unit_number has reached when the first pin of unit 4 is read:
\* it grows by one per row, up to the number of the unit being read.
UnitsCounted ==
  LET v1 == Min(1, Cardinality(UnitPins(1)))
      v2 == Min(2, v1 + Cardinality(UnitPins(2)))
  IN  Min(3, v2 + Cardinality(UnitPins(3)))

\* The zero-based position of pin i among the placed pins of unit 4
PowerRank(i) == Cardinality({ j \in UnitPins(4) : j < i })

RESET_bar == << "~", "R", "E", "S", "E", "T", "~" >>

\* A name of unit 4 that the placement table has no pattern for
NoPlacementRule(name) ==
  /\ name \notin { RESET_bar, RESETn, DECOUPLE, USB_VBUS, USB_VREGI,
                   USB_VREGO, VDD_DREG, VSS_DREG }
  /\ ~StartsWith(name, VSS)
  /\ ~StartsWith(name, IOVDD_)
  /\ ~StartsWith(name, AVDD_)
  /\ ~StartsWith(name, AVSS_)

UnplacedPins == { i \in UnitPins(4) : NoPlacementRule(PinName(i)) }

\* C4 (as amended): a pin of unit 4 that matches no pattern of the
\* placement table is placed on the left side at slot max(0, p - e), where
\* p is its zero-based position among the unit-4 pins in sort order and
\* e = 3 - (the value unit_number has when unit 4 begins); with units 1-3
\* all populated e = 0 and the slot is p.
C4_DefaultSlot ==
  \A i \in UnplacedPins :
    /\ OnLeft(sorted_table[i])
    /\ Slot(sorted_table[i]) = Max(0, PowerRank(i) - (3 - UnitsCounted))

\* C4 (as written): a pin of unit 4 that matches no pattern of the
\* placement table is placed at slot 0 on the left side, whatever its
\* position among the unit-4 pins.
C4_DefaultSlotZero ==
  \A i \in UnplacedPins :
    OnLeft(sorted_table[i]) /\ Slot(sorted_table[i]) = 0

\* Every pin placed, one of them by the default rule, below slot 0
C4_Witness ==
  /\ PlacementDone
  /\ \E i \in UnplacedPins :
       Slot(sorted_table[i]) > 0 /\ OnLeft(sorted_table[i])

\* --------------------------------------------------------- classification

\* The pin names of the file, in the order of its rows
InputNames == [i \in 1..(Len(csv_list_str) - 1) |-> csv_list_str[i + 1][2]]

\* The unit that the name of a GPIO pin stands for, 4 for any other name
UnitOfName(name) ==
  IF Len(name) \in 3..4 /\ name[1] = "P"
     /\ \A k \in 3..Len(name) : name[k] \in Digit
  THEN (IF name[2] \in { "A", "B" } THEN 1
        ELSE IF name[2] \in { "C", "D" } THEN 2
        ELSE IF name[2] \in { "E", "F" } THEN 3
        ELSE 4)
  ELSE 4

\* C5: every pin whose name matches none of the GPIO patterns is given
\* unit 4, known power name or not, so that every pin has a unit in 1..4
\* that its name alone decides, and classification never fails.
C5_EveryPinHasUnit ==
  /\ ~(pc = "error" /\ err = "IndexError")
  /\ pc = "stage4a" =>
       \A i \in DOMAIN InputNames :
         /\ data[i + 1][unit_col] \in { Dec(u) : u \in 1..4 }
         /\ UnitOfName(InputNames[i]) = 4 => data[i + 1][unit_col] = Dec(4)

\* C6: a pin named PA or PB and 1-2 digits is given unit 1, PC or PD unit
\* 2, PE or PF unit 3, whatever its id, type and functionality are.
C6_GpioUnitFromName ==
  pc = "stage4a" =>
    \A i \in DOMAIN InputNames :
      UnitOfName(InputNames[i]) \in 1..3 =>
        data[i + 1][unit_col] = Dec(UnitOfName(InputNames[i]))

\* ------------------------------------------------------------ the anchor

AvddCount ==
  Cardinality({ i \in DOMAIN InputNames : StartsWith(InputNames[i], AVDD_) })

IovddCount ==
  Cardinality({ i \in DOMAIN InputNames : StartsWith(InputNames[i], IOVDD_) })

\* Some pin name of the file begins with USB_V
HasUsbV ==
  \E i \in DOMAIN InputNames :
    StartsWith(InputNames[i], << "U", "S", "B", "_", "V" >>)

HasVrego == \E i \in DOMAIN InputNames : InputNames[i] = USB_VREGO

\* The anchor as the counts of the file give it, with usb the USB term
AnchorOf(usb) ==
  Max(usb + 4 + AvddCount, IovddCount + 6)

\* The device is one whose pins the loop of line 480 places.
Placing == sorted_table # << >>

\* C7 (as amended): the anchor of a device whose pins are placed is
\* max(U + 4 + avddCount, iovddCount + 6), where U is 7 exactly when some
\* pin name begins with USB_V (USB_VBUS, USB_VREGI or USB_VREGO) and 0
\* otherwise.
C7_Anchor ==
  Placing =>
    avdd_iovdd_max = AnchorOf(IF HasUsbV THEN 7 ELSE 0)

\* C7 (as written): U is 7 exactly when the device has a USB_VREGO pin.
C7_AnchorVregoOnly ==
  Placing =>
    avdd_iovdd_max = AnchorOf(IF HasVrego THEN 7 ELSE 0)

\* A placed device with USB_VBUS and no USB_VREGO, its anchor 7 + 4 +
\* avddCount
C7_Witness ==
  /\ Placing
  /\ HasUsbV
  /\ ~HasVrego
  /\ avdd_iovdd_max = 11 + AvddCount

\* ------------------------------------------------------ group counters

\* The row of the file that the placed pin i comes from
InputRow(i) ==
  CHOOSE k \in DOMAIN InputNames : csv_list_str[k + 1][1] = sorted_table[i].id

\* The groups of unit 4 that have a running counter
GroupOf(name) ==
  IF StartsWith(name, IOVDD_) THEN "IOVDD"
  ELSE IF StartsWith(name, AVDD_) THEN "AVDD"
  ELSE IF StartsWith(name, AVSS_) THEN "AVSS"
  ELSE IF StartsWith(name, VSS) /\ name # VSS_DREG THEN "VSS"
  ELSE "none"

\* The counter of group g after a pin of the group has been placed
CounterOf(g) ==
  IF g = "IOVDD" THEN iovdd_row_counter
  ELSE IF g = "AVDD" THEN avdd_row_counter
  ELSE IF g = "AVSS" THEN avss_row_counter
  ELSE vss_row_counter

\* Pin j comes before pin i in the natural order of the names, pins of
\* the same name in the order of the file
SortsBefore(j, i) ==
  LET nj == InputNames[InputRow(j)]
      ni == InputNames[InputRow(i)]
  IN  \/ NatLess(nj, ni)
      \/ ~NatLess(ni, nj) /\ InputRow(j) < InputRow(i)

SortRank(i) == Cardinality({ j \in UnitPins(4) : SortsBefore(j, i) })

\* The pin placed last, when it is a pin of a group of unit 4
LastPin == Len(sorted_table)

LastInGroup ==
  /\ pc = "stage4b"
  /\ sorted_table # << >>
  /\ sorted_table[LastPin].unit = Dec(4)
  /\ GroupOf(PinName(LastPin)) # "none"

\* C8 (as amended): the counter n of a pin of a unit-4 group is the number
\* of pins of its group that come before it in the sorted order of the
\* placement loop (natural order of the names, equal names in input-row
\* order) at unit-4 positions e and later, e = 3 - (the value of
\* unit_number when unit 4 begins); with units 1-3 all populated n is the
\* pin's rank in its group in natural name order.
C8_CounterSortRank ==
  LastInGroup =>
    CounterOf(GroupOf(PinName(LastPin))) - 1
    = Cardinality({ j \in UnitPins(4) :
                      /\ GroupOf(PinName(j)) = GroupOf(PinName(LastPin))
                      /\ SortsBefore(j, LastPin)
                      /\ SortRank(j) >= 3 - UnitsCounted })

\* C8 (as written): the counter n of a pin of a unit-4 group is its rank
\* among the pins of the group in input-row order.
C8_CounterInputRank ==
  LastInGroup =>
    CounterOf(GroupOf(PinName(LastPin))) - 1
    = Cardinality({ k \in DOMAIN InputNames :
                      /\ GroupOf(InputNames[k]) = GroupOf(PinName(LastPin))
                      /\ k < InputRow(LastPin) })

\* A pin is placed with n = 0 though another pin of its group comes
\* before it in the file, in a device with units 1-3 populated.
C8_Witness ==
  /\ LastInGroup
  /\ UnitsCounted = 3
  /\ CounterOf(GroupOf(PinName(LastPin))) = 1
  /\ \E k \in DOMAIN InputNames :
       /\ GroupOf(InputNames[k]) = GroupOf(PinName(LastPin))
       /\ k < InputRow(LastPin)

\* ------------------------------------------------------------ ground pins

VssGroup == { i \in UnitPins(4) : GroupOf(PinName(i)) = "VSS" }

AvssGroup == { i \in UnitPins(4) : GroupOf(PinName(i)) = "AVSS" }

\* anchor + 3 + (2 if VSS_DREG is present else 0)
GroundBase ==
  avdd_iovdd_max + 3 + (IF HasName(UnitPins(4), VSS_DREG) THEN 2 ELSE 0)

\* C9: VSS_DREG is at right slot anchor + 3; the n-th pin of the VSS group
\* (VSS_PAD included, VSS_DREG excluded) is at right slot anchor + 3 +
\* (2 if VSS_DREG is present) + n; the n-th AVSS pin is at left slot
\* anchor + 3 + (2 if VSS_DREG is present) + vssCount + n - avssCount,
\* vssCount being the size of the VSS group; vssMax is the largest slot of
\* a pin of the VSS group.
C9_GroundPins ==
  PlacementDone =>
    /\ \A i \in UnitPins(4) :
         PinName(i) = VSS_DREG =>
           /\ OnRight(sorted_table[i])
           /\ Slot(sorted_table[i]) = avdd_iovdd_max + 3
    /\ SlotsOf(VssGroup)
       = { GroundBase + n : n \in 0..(Cardinality(VssGroup) - 1) }
    /\ \A i \in VssGroup : OnRight(sorted_table[i])
    /\ SlotsOf(AvssGroup)
       = { GroundBase + Cardinality(VssGroup) + n - Cardinality(AvssGroup) :
             n \in 0..(Cardinality(AvssGroup) - 1) }
    /\ \A i \in AvssGroup : OnLeft(sorted_table[i])
    /\ VssGroup # {} => vss_max = MaxOf(SlotsOf(VssGroup))

\* ---------------------------------------------------------- the outline

PopulatedUnits == { u \in 1..4 : UnitPins(u) # {} }

\* C10: for a device with a pin in unit 4, with or without a VSS or
\* VSS_PAD pin, the outline is computed without error: one box per
\* populated unit and none for an empty one, the box of unit 4 of the
\* fixed width with its lower edge at -(100 * vssMax + 150).
C10_OutlineCompletes ==
  /\ ~(pc = "error" /\ err = "NameError")
  /\ (pc = "write" /\ UnitPins(4) # {}) =>
       /\ Len(unit_boxes) = Cardinality(PopulatedUnits)
       /\ { unit_boxes[k].unit : k \in DOMAIN unit_boxes }
          = { Dec(u) : u \in PopulatedUnits }
       /\ \A k \in DOMAIN unit_boxes :
            unit_boxes[k].unit = Dec(4) =>
              /\ unit_boxes[k].x_max - unit_boxes[k].x_min = 1000
              /\ VssGroup # {} =>
                   unit_boxes[k].y_min
                   = -(100 * MaxOf(SlotsOf(VssGroup)) + 150)

\* -------------------------------------------------- boxes of units 1-3

\* The box written for unit u
BoxOf(u) == unit_boxes[CHOOSE k \in DOMAIN unit_boxes : unit_boxes[k].unit = Dec(u)]

HasBox(u) == \E k \in DOMAIN unit_boxes : unit_boxes[k].unit = Dec(u)

\* The unit has pins of the first and of the second bank
BothBanks(u) ==
  /\ \E i \in UnitPins(u) : InSecondBank(i)
  /\ \E i \in UnitPins(u) : ~InSecondBank(i)

C12_SameInputSameResult ==
  \A i, j \in DOMAIN runs :
    runs[i].input = runs[j].input =>
      /\ runs[i].table = runs[j].table
      /\ runs[i].boxes = runs[j].boxes

\* A device is read first and third in a run, another device between, and
\* its pins and boxes are the same both times.
C12_Witness ==
  /\ Len(runs) = 3
  /\ runs[1].input = runs[3].input
  /\ runs[2].input # runs[1].input
  /\ Len(runs[1].table) >= 3
  /\ runs[3].table = runs[1].table
  /\ runs[3].boxes = runs[1].boxes
  /\ runs[2].table # runs[1].table

\* -------------------------------------------------- resets of the counters

\* A step of the loop of line 480 that places one more pin
PlacesPin == Len(sorted_table') = Len(sorted_table) + 1

\* The pin placed by the step is the first pin of its unit.
FirstOfUnit ==
  \/ sorted_table = << >>
  \/ sorted_table[Len(sorted_table)].unit # sorted_table'[Len(sorted_table')].unit

\* The step ran the reset block of lines 488-494, which also advances
\* unit_number.
ResetRan == unit_number' # unit_number

\* C13: the running state of the loop (slot counter, separator flag and
\* group counters) is reset exactly once per populated unit, at the first
\* pin of the unit, and never between two pins of one unit, also when a
\* lower unit has no pins.
C13_ResetOncePerUnit == [][PlacesPin => (ResetRan <=> FirstOfUnit)]_vars

\* ------------------------------------------------ unit 4, shared positions

\* Every pin of unit 4 matches a pattern of the placement table, and no
\* name but VSS occurs twice.
TableCoversUnit4 ==
  /\ UnplacedPins = {}
  /\ \A i, j \in UnitPins(4) :
       (i # j /\ PinName(i) = PinName(j)) => PinName(i) = VSS

\* C14: in a device whose unit-4 pins all match a pattern of the placement
\* table and whose unit-4 names other than VSS are pairwise distinct, no
\* two pins of unit 4 are on the same side at the same slot, whatever the
\* counts of the groups and whichever of units 1-3 are populated.
C14_NoSharedPosition ==
  (PlacementDone /\ TableCoversUnit4) =>
    \A i, j \in UnitPins(4) :
      i # j =>
        \/ sorted_table[i].x # sorted_table[j].x
        \/ sorted_table[i].y # sorted_table[j].y

\* ------------------------------------------------------ pins and boxes

\* C15: each pin of a populated unit lies vertically strictly inside the
\* box of the unit: lower edge < pin y < upper edge (150), for units 1-3
\* and for unit 4.
C15_PinsInsideBox ==
  pc = "write" =>
    \A u \in PopulatedUnits :
      /\ HasBox(u)
      /\ BoxOf(u).y_max = 150
      /\ \A i \in UnitPins(u) :
           /\ BoxOf(u).y_min < sorted_table[i].y
           /\ sorted_table[i].y < BoxOf(u).y_max

\* ------------------------------------------------------- output files

\* The component bodies written so far: one per file whose call returned.
BodiesWritten ==
  IF pc \in { "main", "loop", "done" } THEN fcounter ELSE fcounter - 1

\* What an output file holds once it has been emptied.
ExpectedFile ==
  (IF BodiesWritten >= 1 THEN << Header >> ELSE << >>)
  \o [n \in 1..BodiesWritten |-> Body(n)]
  \o (IF pc = "done" THEN << Footer >> ELSE << >>)

\* C16: once emptied, each output file holds nothing of an earlier run; it
\* holds one header before the first body, the bodies of the files
\* processed so far in processing order with no header between them, and,
\* when the run is over after k >= 1 files, one footer after the k-th body.
C16_OutputShape ==
  pc # "main" =>
    /\ lib = ExpectedFile
    /\ dcm = ExpectedFile
    /\ (pc = "done" /\ fcounter >= 1) =>
         /\ Len(lib) = fcounter + 2
         /\ lib[1] = Header
         /\ lib[Len(lib)] = Footer
         /\ \A n \in 1..fcounter : lib[n + 1] = Body(n)

C16_Witness ==
  /\ pc = "done"
  /\ fcounter = MaxFiles
  /\ lib = << Header >> \o [n \in 1..MaxFiles |-> Body(n)] \o << Footer >>
  /\ dcm = lib

====
